---- MODULE Spec2Model ----
(***************************************************************************)
(* Model of roboat-extras' Client::upload_studio_asset (src/ide/mod.rs):   *)
(* an authenticated upload that reads the session cookie and the X-CSRF    *)
(* token, posts the asset, and retries once with the token the server      *)
(* returned when the first attempt is rejected with InvalidXcsrf.          *)
(* Several calls run concurrently on one Client; every .await of the code  *)
(* is a point where another call may take a step.                          *)
(***************************************************************************)
EXTENDS Integers, Sequences, FiniteSets, TLC

\* Number of upload_studio_asset calls made on the one Client.
NumOps == 2

Ops == 1..NumOps

\* Option<T>: None is the empty sequence, Some(x) the one-element sequence.
None == <<>>
Some(x) == <<x>>

\* The X-CSRF token the Client holds before any call, and the tokens the
\* server may hand out in the X-CSRF response header of a rejection.
InitToken == "T0"
ReplTokens == {"T1", "T2"}

\* Response bodies as byte sequences: "98", and a lone 0xC3 byte, which is not
\* valid UTF-8.
Bodies == {<<57, 56>>, <<195>>}
ErrBody == <<101>>
NoBody == <<>>

\* The requests the callers pass, as a list: asset_data is a byte sequence,
\* group_id and place_id are Option<u64>.
AssetInfos ==
    << [name |-> "roboatTest", description |-> "desc",
        asset_type |-> "AssetType::Animation", asset_data |-> <<60, 62>>,
        group_id |-> None, place_id |-> Some(64)],
       [name |-> "roboatTest", description |-> "desc",
        asset_type |-> "AssetType::Animation", asset_data |-> <<60, 62>>,
        group_id |-> Some(42), place_id |-> None],
       [name |-> "roboatTest", description |-> "desc",
        asset_type |-> "AssetType::Animation", asset_data |-> <<60, 62>>,
        group_id |-> None, place_id |-> None],
       [name |-> "walk", description |-> "",
        asset_type |-> "AssetType::Audio", asset_data |-> <<0>>,
        group_id |-> Some(42), place_id |-> Some(64)] >>

\* The calls differ only in what they upload, so call p is given the p-th
\* request of the list (cyclically): concurrent calls carry different requests.
AssetOf(p) == AssetInfos[((p - 1) % Len(AssetInfos)) + 1]

NoInfo ==
    [name |-> "", description |-> "", asset_type |-> "AssetType::Animation",
     asset_data |-> <<>>, group_id |-> None, place_id |-> None]

VARIABLES
    cookie,      \* Client's .ROBLOSECURITY cookie: None or Some(string)
    token,       \* Client's stored X-CSRF token
    pc,          \* per call: where the call stands
    attempt,     \* per call: 0 before the call, then 1 or 2
    info,        \* per call: the NewStudioAsset passed in
    new_xcsrf,   \* per call: the token bound by Err(InvalidXcsrf(new_xcsrf))
    requests,    \* per call: the requests handed to the Transport, in order
    outcomes,    \* per call: what each upload_studio_asset_internal returned
    result,      \* per call: what upload_studio_asset returned
    writes,      \* the set_xcsrf calls executed so far, in order: <<op, token>>
    seen,        \* per call: Len(writes) when the call last read the token
    accepted     \* server side: the tokens the server accepts

vars == <<cookie, token, pc, attempt, info, new_xcsrf, requests, outcomes,
          result, writes, seen, accepted>>

----
\* Results: Result<String, RoboatError> as a record.

Ok(s) == [kind |-> "Ok", tok |-> "", status |-> 200, body |-> s]
MissingAuth == [kind |-> "MissingAuth", tok |-> "", status |-> 0, body |-> NoBody]
InvalidXcsrf(t) == [kind |-> "InvalidXcsrf", tok |-> t, status |-> 403, body |-> NoBody]
MalformedRefreshSignal ==
    [kind |-> "MalformedRefreshSignal", tok |-> "", status |-> 403, body |-> NoBody]
ResponseError(s, b) == [kind |-> "ResponseError", tok |-> "", status |-> s, body |-> b]
ReqwestError == [kind |-> "ReqwestError", tok |-> "", status |-> 0, body |-> NoBody]

NoResult == [kind |-> "None", tok |-> "", status |-> 0, body |-> NoBody]

----
\* The wire request built by upload_studio_asset_internal.

STUDIO_UPLOAD_API == "https://www.roblox.com/ide/publish/uploadnewanimation"

Digits == <<"0", "1", "2", "3", "4", "5", "6", "7", "8", "9">>

\* u64::to_string: the decimal digits, most significant first.
RECURSIVE to_string(_)
to_string(n) ==
    IF n < 10 THEN Digits[n + 1]
    ELSE to_string(n \div 10) \o Digits[(n % 10) + 1]

\* format!("{:?}", asset_type): the variant's name.
DebugFmt(asset_type) ==
    CASE asset_type = "AssetType::Animation" -> "Animation"
      [] asset_type = "AssetType::Audio" -> "Audio"
      [] asset_type = "AssetType::Decal" -> "Decal"

\* A variant that always sends groupId, empty when group_id is None.
QueryParamsEmptyGroup(asset_info) ==
    << <<"assetTypeName", DebugFmt(asset_info.asset_type)>>,
       <<"name", asset_info.name>>,
       <<"description", asset_info.description>>,
       <<"AllID", "1">>,
       <<"ispublic", "False">>,
       <<"allowComments", "True">>,
       <<"isGamesAsset", "False">>,
       <<"groupId", IF asset_info.group_id # None
                    THEN to_string(asset_info.group_id[1]) ELSE "">> >>

\* A variant that also sends place_id, as placeId, when it is Some.
QueryParamsWithPlace(asset_info) ==
    LET base == << <<"assetTypeName", DebugFmt(asset_info.asset_type)>>,
                   <<"name", asset_info.name>>,
                   <<"description", asset_info.description>>,
                   <<"AllID", "1">>,
                   <<"ispublic", "False">>,
                   <<"allowComments", "True">>,
                   <<"isGamesAsset", "False">> >>
        grp == IF asset_info.group_id # None
               THEN Append(base, <<"groupId", to_string(asset_info.group_id[1])>>)
               ELSE base
    IN IF asset_info.place_id # None
       THEN Append(grp, <<"placeId", to_string(asset_info.place_id[1])>>)
       ELSE grp

\* query_params: the fixed vec!, then groupId pushed when group_id is Some.
QueryParams(asset_info) ==
    LET base == << <<"assetTypeName", DebugFmt(asset_info.asset_type)>>,
                   <<"name", asset_info.name>>,
                   <<"description", asset_info.description>>,
                   <<"AllID", "1">>,
                   <<"ispublic", "False">>,
                   <<"allowComments", "True">>,
                   <<"isGamesAsset", "False">> >>
    IN IF asset_info.group_id # None
       THEN Append(base, <<"groupId", to_string(asset_info.group_id[1])>>)
       ELSE base

\* Client::cookie_string: MissingAuth when no cookie is set, otherwise the
\* Cookie header value.
CookieString(c) == ".ROBLOSECURITY=" \o c

\* reqwest_client.post(..).query(..).header(..).body(..).header(..).header(..)
BuildRequest(asset_info, cookie_hdr, xcsrf_hdr) ==
    [method |-> "POST",
     url |-> STUDIO_UPLOAD_API,
     query |-> QueryParams(asset_info),
     cookie |-> cookie_hdr,
     body |-> asset_info.asset_data,
     xcsrf |-> xcsrf_hdr,
     user_agent |-> "Roblox/WinInet"]

----
\* What the Transport hands back from send().await.

TransportFailure ==
    [t |-> "err", status |-> 0, hdr |-> None, body |-> NoBody, text_ok |-> FALSE]
Response(s, h, b, ok) ==
    [t |-> "resp", status |-> s, hdr |-> h, body |-> b, text_ok |-> ok]

\* An X-CSRF response header whose value cannot be read as a token.
BadHeader == "\\xff"

\* Rejections that carry a fresh token in the X-CSRF response header.
TokenInvalidResponses == { Response(403, Some(t), NoBody, TRUE) : t \in ReplTokens }

\* 2xx responses whose body arrives whole.
SuccessResponses == { Response(200, None, b, TRUE) : b \in Bodies }

Responses ==
    {TransportFailure}
    \cup SuccessResponses
    \cup {Response(200, None, NoBody, FALSE)}
    \cup TokenInvalidResponses
    \cup {Response(403, None, NoBody, TRUE), Response(403, Some(BadHeader), NoBody, TRUE)}
    \cup {Response(500, None, ErrBody, TRUE)}

\* Client::validate_request_result: Err(e) of the Transport becomes
\* ReqwestError; a 2xx passes; a 403 is the token-invalid rejection and yields
\* InvalidXcsrf(token) when the X-CSRF header holds one, MalformedRefreshSignal
\* when it is absent or unreadable; any other status is ResponseError.
validate_request_result(r) ==
    IF r.t = "err" THEN ReqwestError
    ELSE IF r.status = 200 THEN Ok(r.body)
    ELSE IF r.status = 403
         THEN IF r.hdr # None /\ r.hdr[1] # BadHeader
              THEN InvalidXcsrf(r.hdr[1])
              ELSE MalformedRefreshSignal
    ELSE ResponseError(r.status, r.body)

\* String::from_utf8_lossy as Response::text applies it to the bodies used
\* here: an ASCII byte is its own code point, a byte that starts no valid
\* sequence becomes U+FFFD.
RECURSIVE Utf8Lossy(_)
Utf8Lossy(bytes) ==
    IF bytes = <<>> THEN <<>>
    ELSE <<IF Head(bytes) < 128 THEN Head(bytes) ELSE 65533>> \o Utf8Lossy(Tail(bytes))

\* response.text().await.map_err(RoboatError::ReqwestError)
text(r) == IF r.text_ok THEN Ok(Utf8Lossy(r.body)) ELSE ReqwestError

\* A variant that returns the validated response's bytes without text().
InterpretRawBytes(r) == validate_request_result(r)

\* Lines 122-124: validate_request_result(..)?, then text()?, then Ok(..).
Interpret(r) ==
    LET v == validate_request_result(r)
    IN IF v.kind = "Ok" THEN text(r) ELSE v

----
\* Client::upload_studio_asset, one step per await.

Last(s) == s[Len(s)]

\* Variants of the match that retry more than the code does.
RetriesWhenever(n, res) == res.kind = "InvalidXcsrf"
RetriesOnForbidden(n, res) == n = 1 /\ res.status = 403
RetriesOnTransport(n, res) == n = 1 /\ res.kind \in {"InvalidXcsrf", "ReqwestError"}
RetriesOnRejection(n, res) == n = 1 /\ res.kind \in {"InvalidXcsrf", "ResponseError"}

\* The match of upload_studio_asset: only Err(InvalidXcsrf(_)) of the first
\* upload_studio_asset_internal leads to set_xcsrf and a second call; Ok(x),
\* Err(e) and whatever the second call returns are returned as they are.
Retries(n, res) == n = 1 /\ res.kind = "InvalidXcsrf"

\* A variant that reports the first attempt's error when the retry fails too.
ReturnedKeepsFirstError(p, res) ==
    /\ outcomes' = [outcomes EXCEPT ![p] = Append(@, res)]
    /\ IF Retries(attempt[p], res)
       THEN /\ pc' = [pc EXCEPT ![p] = "set"]
            /\ new_xcsrf' = [new_xcsrf EXCEPT ![p] = res.tok]
            /\ UNCHANGED result
       ELSE /\ pc' = [pc EXCEPT ![p] = "done"]
            /\ result' = [result EXCEPT
                            ![p] = IF attempt[p] = 2 /\ res.kind # "Ok"
                                   THEN outcomes[p][1] ELSE res]
            /\ UNCHANGED new_xcsrf

\* upload_studio_asset_internal of call p returned res.
Returned(p, res) ==
    /\ outcomes' = [outcomes EXCEPT ![p] = Append(@, res)]
    /\ IF Retries(attempt[p], res)
       THEN /\ pc' = [pc EXCEPT ![p] = "set"]
            /\ new_xcsrf' = [new_xcsrf EXCEPT ![p] = res.tok]
            /\ UNCHANGED result
       ELSE /\ pc' = [pc EXCEPT ![p] = "done"]
            /\ result' = [result EXCEPT ![p] = res]
            /\ UNCHANGED new_xcsrf

\* A Client as ClientBuilder leaves it: with or without a cookie, and with
\* its starting X-CSRF token; no call has begun.
InitClient ==
    /\ cookie \in {None, Some("C")}
    /\ token = InitToken
    /\ pc = [p \in Ops |-> "idle"]
    /\ attempt = [p \in Ops |-> 0]
    /\ info = [p \in Ops |-> NoInfo]
    /\ new_xcsrf = [p \in Ops |-> ""]
    /\ requests = [p \in Ops |-> <<>>]
    /\ outcomes = [p \in Ops |-> <<>>]
    /\ result = [p \in Ops |-> NoResult]
    /\ writes = <<>>
    /\ seen = [p \in Ops |-> 0]

Init ==
    /\ InitClient
    /\ accepted = {}

\* A caller invokes upload_studio_asset(asset_info).
Call(p, asset_info) ==
    /\ pc[p] = "idle"
    /\ pc' = [pc EXCEPT ![p] = "start"]
    /\ attempt' = [attempt EXCEPT ![p] = 1]
    /\ info' = [info EXCEPT ![p] = asset_info]
    /\ UNCHANGED <<cookie, token, new_xcsrf, requests, outcomes, result,
                   writes, seen, accepted>>

\* A variant without the MissingAuth check: a missing cookie is sent as an
\* empty Cookie header.
InternalSendEmptyCookie(p) ==
    /\ pc[p] = "start"
    /\ LET cookie_l == IF cookie = None THEN "" ELSE CookieString(cookie[1])
           xcsrf_l == token
       IN requests' = [requests EXCEPT
                         ![p] = Append(@, BuildRequest(info[p], cookie_l, xcsrf_l))]
    /\ seen' = [seen EXCEPT ![p] = Len(writes)]
    /\ pc' = [pc EXCEPT ![p] = "wait"]
    /\ UNCHANGED <<cookie, token, attempt, info, writes, accepted, new_xcsrf,
                   outcomes, result>>

\* A variant whose retry sends the token the first attempt read instead of
\* reading the stored token again.
InternalSendCachedToken(p) ==
    /\ pc[p] = "start"
    /\ IF cookie = None
       THEN /\ Returned(p, MissingAuth)
            /\ UNCHANGED <<requests, seen>>
       ELSE LET cookie_l == CookieString(cookie[1])
                xcsrf_l == IF requests[p] # <<>> THEN requests[p][1].xcsrf ELSE token
            IN /\ requests' = [requests EXCEPT
                                 ![p] = Append(@, BuildRequest(info[p], cookie_l, xcsrf_l))]
               /\ seen' = [seen EXCEPT ![p] = Len(writes)]
               /\ pc' = [pc EXCEPT ![p] = "wait"]
               /\ UNCHANGED <<new_xcsrf, outcomes, result>>
    /\ UNCHANGED <<cookie, token, attempt, info, writes, accepted>>

\* The body of InternalSend with the token and the request left open: the
\* variants below differ from the code in one of the two.
SendWith(p, xcsrf_l, asset_info) ==
    /\ pc[p] = "start"
    /\ IF cookie = None
       THEN /\ Returned(p, MissingAuth)
            /\ UNCHANGED <<requests, seen>>
       ELSE LET cookie_l == CookieString(cookie[1])
            IN /\ requests' = [requests EXCEPT
                                 ![p] = Append(@, BuildRequest(asset_info, cookie_l, xcsrf_l))]
               /\ seen' = [seen EXCEPT ![p] = Len(writes)]
               /\ pc' = [pc EXCEPT ![p] = "wait"]
               /\ UNCHANGED <<new_xcsrf, outcomes, result>>
    /\ UNCHANGED <<token, attempt, info, writes, accepted>>

\* A variant whose first attempt sends the Client's starting token instead of
\* the stored one.
InternalSendFreshToken(p) ==
    /\ SendWith(p, IF attempt[p] = 1 THEN InitToken ELSE token, info[p])
    /\ UNCHANGED cookie

\* A variant whose retry sends the token of its own InvalidXcsrf instead of
\* reading the stored token.
InternalSendOwnToken(p) ==
    /\ SendWith(p, IF attempt[p] = 2 THEN new_xcsrf[p] ELSE token, info[p])
    /\ UNCHANGED cookie

\* A variant whose first attempt consumes asset_data, so that the retry sends
\* an empty body.
InternalSendDrainedBody(p) ==
    /\ SendWith(p, token, IF attempt[p] = 2
                          THEN [info[p] EXCEPT !.asset_data = <<>>] ELSE info[p])
    /\ UNCHANGED cookie

\* A variant that takes the cookie out of the Client when it reads it.
InternalSendTakesCookie(p) ==
    /\ SendWith(p, token, info[p])
    /\ cookie' = None

\* Lines 92-120: cookie_string()? returns Err(MissingAuth) at once when the
\* cookie is missing; otherwise xcsrf().await reads the stored token, and the
\* request built from asset_info, the cookie and that token is handed to the
\* Transport.  Nothing between the read and send() touches the Client.
InternalSend(p) ==
    /\ pc[p] = "start"
    /\ IF cookie = None
       THEN /\ Returned(p, MissingAuth)
            /\ UNCHANGED <<requests, seen>>
       ELSE LET cookie_l == CookieString(cookie[1])
                xcsrf_l == token
            IN /\ requests' = [requests EXCEPT
                                 ![p] = Append(@, BuildRequest(info[p], cookie_l, xcsrf_l))]
               /\ seen' = [seen EXCEPT ![p] = Len(writes)]
               /\ pc' = [pc EXCEPT ![p] = "wait"]
               /\ UNCHANGED <<new_xcsrf, outcomes, result>>
    /\ UNCHANGED <<cookie, token, attempt, info, writes, accepted>>

\* A variant that stores the token of every InvalidXcsrf as soon as it is
\* received, also on the second attempt.
InternalReceiveStoresToken(p, r) ==
    /\ pc[p] = "wait"
    /\ Returned(p, Interpret(r))
    /\ accepted' = IF r \in TokenInvalidResponses
                   THEN accepted \cup {r.hdr[1]} ELSE accepted
    /\ IF Interpret(r).kind = "InvalidXcsrf" /\ attempt[p] = 2
       THEN /\ token' = Interpret(r).tok
            /\ writes' = Append(writes, <<p, Interpret(r).tok>>)
       ELSE UNCHANGED <<token, writes>>
    /\ UNCHANGED <<cookie, attempt, info, requests, seen>>

\* Lines 120-124: send().await completes with r, which is interpreted and
\* returned.  A token the server hands out is one it accepts from then on.
InternalReceive(p, r) ==
    /\ pc[p] = "wait"
    /\ Returned(p, Interpret(r))
    /\ accepted' = IF r \in TokenInvalidResponses
                   THEN accepted \cup {r.hdr[1]} ELSE accepted
    /\ UNCHANGED <<cookie, token, attempt, info, requests, writes, seen>>

\* Client::set_xcsrf: the stored token is overwritten.
set_xcsrf(t) == token' = t

\* A variant that retries without storing the new token.
SetXcsrfNotStored(p) ==
    /\ pc[p] = "set"
    /\ attempt' = [attempt EXCEPT ![p] = 2]
    /\ pc' = [pc EXCEPT ![p] = "start"]
    /\ UNCHANGED <<cookie, token, writes, info, new_xcsrf, requests, outcomes,
                   result, seen, accepted>>

\* A variant that appends the new token to the stored one instead of
\* replacing it.
SetXcsrfAppends(p) ==
    /\ pc[p] = "set"
    /\ token' = token \o new_xcsrf[p]
    /\ writes' = Append(writes, <<p, new_xcsrf[p]>>)
    /\ attempt' = [attempt EXCEPT ![p] = 2]
    /\ pc' = [pc EXCEPT ![p] = "start"]
    /\ UNCHANGED <<cookie, info, new_xcsrf, requests, outcomes, result, seen,
                   accepted>>

\* A variant in which a call stores its token only once no other call is
\* about to store one.
SetXcsrfWaitsForRefresh(p) ==
    /\ pc[p] = "set"
    /\ \A q \in Ops \ {p} : pc[q] # "set"
    /\ token' = new_xcsrf[p]
    /\ writes' = Append(writes, <<p, new_xcsrf[p]>>)
    /\ attempt' = [attempt EXCEPT ![p] = 2]
    /\ pc' = [pc EXCEPT ![p] = "start"]
    /\ UNCHANGED <<cookie, info, new_xcsrf, requests, outcomes, result, seen,
                   accepted>>

\* Lines 73-74: self.set_xcsrf(new_xcsrf).await, then the second
\* upload_studio_asset_internal starts.
SetXcsrf(p) ==
    /\ pc[p] = "set"
    /\ set_xcsrf(new_xcsrf[p])
    /\ writes' = Append(writes, <<p, new_xcsrf[p]>>)
    /\ attempt' = [attempt EXCEPT ![p] = 2]
    /\ pc' = [pc EXCEPT ![p] = "start"]
    /\ UNCHANGED <<cookie, info, new_xcsrf, requests, outcomes, result, seen,
                   accepted>>

Next ==
    \/ \E p \in Ops : Call(p, AssetOf(p))
    \/ \E p \in Ops : InternalSend(p)
    \/ \E p \in Ops, r \in Responses : InternalReceive(p, r)
    \/ \E p \in Ops : SetXcsrf(p)

Spec == Init /\ [][Next]_vars

\* upload_studio_asset invoked while no other call of the Client is in
\* flight, as in the example program, which awaits its one upload.
CallAwaited(p) ==
    /\ \A q \in Ops : pc[q] \in {"idle", "done"}
    /\ Call(p, AssetOf(p))

NextSeq ==
    \/ \E p \in Ops : CallAwaited(p)
    \/ \E p \in Ops : InternalSend(p)
    \/ \E p \in Ops, r \in Responses : InternalReceive(p, r)
    \/ \E p \in Ops : SetXcsrf(p)

\* The Client used by one caller that awaits each upload before the next.
SeqSpec == Init /\ [][NextSeq]_vars

\* The steps of call p that follow its invocation.
Step(p) ==
    \/ InternalSend(p)
    \/ \E r \in Responses : InternalReceive(p, r)
    \/ SetXcsrf(p)

\* The same behaviours where the executor keeps polling every call that can
\* take a step: a token access is granted, and every send().await completes.
\* Whether a caller invokes upload_studio_asset at all is left open.
LiveSpec == Spec /\ \A p \in Ops : WF_vars(Step(p))

----
\* The same calls against a server that behaves as the service is described:
\* it accepts a request whose X-CSRF header is a token it has issued for the
\* session and answers 2xx with the new identifier; it rejects any other
\* token with a 403 that carries a token it issues then.  The Transport
\* delivers every response whole.

ServerResponses(req) ==
    IF req.xcsrf \in accepted THEN SuccessResponses ELSE TokenInvalidResponses

ServerReceive(p) ==
    /\ pc[p] = "wait"
    /\ \E r \in ServerResponses(Last(requests[p])) : InternalReceive(p, r)

\* The token the Client starts with is one the server still accepts, or a
\* stale one.
InitServer ==
    /\ InitClient
    /\ accepted \in {{}, {InitToken}}

NextServer ==
    \/ \E p \in Ops : Call(p, AssetOf(p))
    \/ \E p \in Ops : InternalSend(p)
    \/ \E p \in Ops : ServerReceive(p)
    \/ \E p \in Ops : SetXcsrf(p)

ServerSpec == InitServer /\ [][NextServer]_vars

----
\* Properties of upload_studio_asset.

\* The calls that have returned.
Done(p) == pc[p] = "done"

\* The position of call p's own set_xcsrf in writes, 0 when it has made none.
OwnWrite(p) ==
    IF \E i \in 1..Len(writes) : writes[i][1] = p
    THEN CHOOSE i \in 1..Len(writes) : writes[i][1] = p
    ELSE 0

\* Call p has not written the stored token.
NoWriteBy(p) == OwnWrite(p) = 0

\* The first upload_studio_asset_internal of call p returned a result of
\* kind k.
FirstIs(p, k) == outcomes[p] # <<>> /\ outcomes[p][1].kind = k

\* The second upload_studio_asset_internal of call p returned a result of
\* kind k.
SecondIs(p, k) == Len(outcomes[p]) = 2 /\ outcomes[p][2].kind = k

\* C1: a call hands at most two requests to the Transport and has returned
\* once its second attempt has an outcome; when both attempts end in
\* InvalidXcsrf the call has returned the second attempt's InvalidXcsrf after
\* exactly two requests.
C1_AtMostTwoInvocations ==
    \A p \in Ops :
        /\ Len(requests[p]) <= 2
        /\ Len(outcomes[p]) <= 2
        /\ Len(outcomes[p]) = 2 => Done(p)
        /\ (FirstIs(p, "InvalidXcsrf") /\ SecondIs(p, "InvalidXcsrf"))
              => /\ Done(p)
                 /\ Len(requests[p]) = 2
                 /\ result[p] = outcomes[p][2]
                 /\ result[p].kind = "InvalidXcsrf"

C1_Witness ==
    \E p \in Ops :
        /\ Done(p)
        /\ FirstIs(p, "InvalidXcsrf") /\ SecondIs(p, "InvalidXcsrf")
        /\ outcomes[p][1].tok # outcomes[p][2].tok

\* C2 as stated: when the first attempt of a call returned InvalidXcsrf(T),
\* then at the step in which the call returns the stored token is T and the
\* second request handed to the Transport carried T in its X-CSRF header.
C2_Original ==
    [][\A p \in Ops :
          (pc[p] # "done" /\ pc'[p] = "done" /\ FirstIs(p, "InvalidXcsrf"))
              => /\ token' = outcomes[p][1].tok
                 /\ Len(requests'[p]) = 2
                 /\ requests'[p][2].xcsrf = outcomes[p][1].tok]_vars

\* C2 as amended: when the first attempt of a call returned InvalidXcsrf(T),
\* the call writes T with set_xcsrf and hands a second request to the
\* Transport; that request's X-CSRF header is T when no other call's
\* set_xcsrf ran between this call's set_xcsrf and its second read of the
\* token, and the stored token is T for as long as no other call's set_xcsrf
\* has run since; otherwise the header and the stored token are the token
\* written by the last set_xcsrf before the read, resp. so far.
C2_RefreshStoresToken ==
    \A p \in Ops :
        FirstIs(p, "InvalidXcsrf") =>
            LET T == outcomes[p][1].tok
                w == OwnWrite(p)
            IN /\ attempt[p] = 2 => w > 0
               /\ Done(p) => (attempt[p] = 2 /\ Len(requests[p]) = 2)
               /\ w > 0 => /\ writes[w][2] = T
                           /\ token = Last(writes)[2]
                           /\ w = Len(writes) => token = T
               /\ (w > 0 /\ Len(requests[p]) = 2)
                     => /\ seen[p] >= w
                        /\ requests[p][2].xcsrf = writes[seen[p]][2]
                        /\ seen[p] = w => requests[p][2].xcsrf = T

C2_Witness ==
    \E p \in Ops :
        /\ Done(p)
        /\ FirstIs(p, "InvalidXcsrf")
        /\ seen[p] = OwnWrite(p)
        /\ OwnWrite(p) = Len(writes)
        /\ Len(writes) = 2
        /\ token = outcomes[p][1].tok
        /\ requests[p][2].xcsrf = outcomes[p][1].tok
        /\ requests[p][1].xcsrf # outcomes[p][1].tok

\* C3: on a Client without a cookie a call returns MissingAuth from its first
\* attempt: no request is handed to the Transport, there is no second attempt,
\* and the stored token is never written.
C3_MissingAuthBeforeNetwork ==
    cookie = None =>
        /\ token = InitToken
        /\ writes = <<>>
        /\ \A p \in Ops :
              /\ requests[p] = <<>>
              /\ pc[p] \in {"idle", "start", "done"}
              /\ attempt[p] <= 1
              /\ Done(p) => (result[p] = MissingAuth /\ outcomes[p] = <<MissingAuth>>)

C3_Witness ==
    /\ cookie = None
    /\ \A p \in Ops : Done(p) /\ result[p] = MissingAuth

\* C4: when the first attempt is a token-invalid rejection without a usable
\* replacement token, the call has returned MalformedRefreshSignal after one
\* request, and it has not written the stored token.
C4_MalformedSignalTerminal ==
    \A p \in Ops :
        FirstIs(p, "MalformedRefreshSignal")
            => /\ Done(p)
               /\ result[p] = MalformedRefreshSignal
               /\ Len(requests[p]) = 1
               /\ Len(outcomes[p]) = 1
               /\ attempt[p] = 1
               /\ NoWriteBy(p)

C4_Witness ==
    \E p \in Ops :
        /\ Done(p)
        /\ result[p] = MalformedRefreshSignal
        /\ Len(requests[p]) = 1
        /\ token = requests[p][1].xcsrf

\* C5: a transport failure ends the call: after a failed first attempt the
\* call has returned ReqwestError with one request made and no write of the
\* stored token; after a failed second attempt it has returned ReqwestError
\* with two requests made.
C5_TransportFailureNotRetried ==
    \A p \in Ops :
        /\ FirstIs(p, "ReqwestError")
              => /\ Done(p)
                 /\ result[p] = ReqwestError
                 /\ Len(requests[p]) = 1
                 /\ Len(outcomes[p]) = 1
                 /\ NoWriteBy(p)
        /\ SecondIs(p, "ReqwestError")
              => /\ Done(p)
                 /\ result[p] = ReqwestError
                 /\ Len(requests[p]) = 2

C5_Witness ==
    /\ \E p \in Ops : Done(p) /\ FirstIs(p, "ReqwestError") /\ Len(requests[p]) = 1
    /\ \E p \in Ops : Done(p) /\ SecondIs(p, "ReqwestError") /\ Len(requests[p]) = 2

\* C6: a first-attempt rejection that is no token-invalid signal ends the
\* call: it has returned ResponseError with the status and body of the
\* response after one request, without writing the stored token.
C6_OtherRejectionTerminal ==
    \A p \in Ops :
        FirstIs(p, "ResponseError")
            => /\ Done(p)
               /\ result[p] = ResponseError(500, ErrBody)
               /\ Len(requests[p]) = 1
               /\ Len(outcomes[p]) = 1
               /\ NoWriteBy(p)

C6_Witness ==
    \E p \in Ops :
        /\ Done(p)
        /\ result[p].kind = "ResponseError"
        /\ result[p].status = 500
        /\ Len(requests[p]) = 1

\* The bytes of an identifier: ASCII only.
IsAscii(b) == \A i \in 1..Len(b) : b[i] < 128

\* C7: when the Transport answers the first request of a call with a 2xx whose
\* body arrives, the call returns Ok with the text of that body (the body's
\* own bytes when it is ASCII), having made one request and no write of the
\* stored token.
C7_SuccessReturnsBody ==
    [][\A p \in Ops : \A r \in SuccessResponses :
          (attempt[p] = 1 /\ InternalReceive(p, r))
              => /\ pc'[p] = "done"
                 /\ result'[p].kind = "Ok"
                 /\ result'[p].body = Utf8Lossy(r.body)
                 /\ IsAscii(r.body) => result'[p].body = r.body
                 /\ Len(requests'[p]) = 1
                 /\ token' = token
                 /\ writes' = writes
                 /\ OwnWrite(p) = 0]_vars

C7_Witness ==
    \E p \in Ops :
        /\ Done(p)
        /\ Len(outcomes[p]) = 1
        /\ result[p] = Ok(<<57, 56>>)
        /\ Len(requests[p]) = 1
        /\ NoWriteBy(p)

\* C8: what a call returns is what its last attempt returned: the first
\* attempt's result unless that was InvalidXcsrf, otherwise the second
\* attempt's result, whatever it is.
C8_ReturnsLastOutcome ==
    \A p \in Ops :
        Done(p) =>
            /\ outcomes[p] # <<>>
            /\ result[p] = Last(outcomes[p])
            /\ outcomes[p][1].kind # "InvalidXcsrf"
                  => (Len(outcomes[p]) = 1 /\ result[p] = outcomes[p][1])
            /\ outcomes[p][1].kind = "InvalidXcsrf"
                  => (Len(outcomes[p]) = 2 /\ result[p] = outcomes[p][2])

C8_Witness ==
    /\ \E p \in Ops :
          /\ Done(p) /\ FirstIs(p, "InvalidXcsrf")
          /\ result[p].kind \in {"InvalidXcsrf", "ReqwestError"}
          /\ result[p] # outcomes[p][1]
    /\ \E p \in Ops : Done(p) /\ Len(outcomes[p]) = 1 /\ result[p].kind = "ResponseError"

\* The replacement tokens carried by the InvalidXcsrf results the calls have
\* received.
Signalled ==
    { outcomes[p][i].tok :
        <<p, i>> \in { <<q, j>> \in Ops \X (1..2) :
                          j <= Len(outcomes[q]) /\ outcomes[q][j].kind = "InvalidXcsrf" } }

\* C9: the stored token, and every token a call read from it and sent, is
\* always the initial token or one whole replacement token that some call
\* received in an InvalidXcsrf; every set_xcsrf wrote the
\* token its caller received, and after any number of writes the stored token
\* is the one written by the set_xcsrf that ran last.
C9_TokenAtomicLastWriteWins ==
    /\ LET whole == {InitToken} \cup Signalled
       IN /\ token \in whole
          /\ \A p \in Ops : \A i \in 1..Len(requests[p]) :
                requests[p][i].xcsrf \in whole
    /\ writes = <<>> => token = InitToken
    /\ writes # <<>> => token = Last(writes)[2]
    /\ \A i \in 1..Len(writes) :
          /\ FirstIs(writes[i][1], "InvalidXcsrf")
          /\ writes[i][2] = outcomes[writes[i][1]][1].tok

C9_Witness ==
    /\ Len(writes) = 2
    /\ writes[1][1] # writes[2][1]
    /\ writes[1][2] # writes[2][2]
    /\ token = writes[2][2]

\* C10: against a server that accepts every token it has issued, with a
\* Transport that delivers every response, a call whose first attempt was
\* rejected with InvalidXcsrf succeeds on its second attempt, whichever call's
\* replacement token it read.
C10_RaceIsBenign ==
    \A p \in Ops :
        /\ (FirstIs(p, "InvalidXcsrf") /\ Len(requests[p]) = 2)
              => requests[p][2].xcsrf \in accepted
        /\ Len(outcomes[p]) = 2 => (SecondIs(p, "Ok") /\ Done(p) /\ result[p].kind = "Ok")

C10_Witness ==
    \E p \in Ops :
        /\ Done(p)
        /\ FirstIs(p, "InvalidXcsrf")
        /\ requests[p][2].xcsrf # outcomes[p][1].tok
        /\ result[p].kind = "Ok"

\* A call that has been invoked and has not returned.
InFlight(p) == pc[p] \in {"start", "wait", "set"}

\* C11: a call in flight can always take its next step, whatever the other
\* calls are doing (no call waits for another call's refresh), and every call
\* that has been invoked eventually returns, having handed at most two
\* requests to the Transport.
C11_NoBlockingEveryCallReturns ==
    /\ [](\A p \in Ops : InFlight(p) => ENABLED Step(p))
    /\ \A p \in Ops : InFlight(p) ~> (Done(p) /\ Len(requests[p]) <= 2)

C11_Witness ==
    \E p, q \in Ops :
        /\ p # q
        /\ Done(p)
        /\ Len(requests[p]) = 2
        /\ pc[q] = "set"
        /\ OwnWrite(p) = Len(writes)

\* The token the Client held when writes had length n.
TokenAfter(n) == IF n = 0 THEN InitToken ELSE writes[n][2]

\* C12: when a call has stored replacement token T and returned, a call whose
\* first attempt reads the token after that, with no set_xcsrf in between,
\* sends T in its X-CSRF header.
C12_RefreshPersists ==
    \A p \in Ops :
        Len(requests[p]) = 1 =>
            /\ requests[p][1].xcsrf = TokenAfter(seen[p])
            /\ \A q \in Ops \ {p} :
                  (Done(q) /\ OwnWrite(q) > 0 /\ seen[p] = OwnWrite(q))
                      => requests[p][1].xcsrf = outcomes[q][1].tok

C12_Witness ==
    \E p, q \in Ops :
        /\ p # q
        /\ Done(q) /\ OwnWrite(q) = 1 /\ Len(writes) = 1
        /\ Done(p) /\ Len(requests[p]) = 1 /\ seen[p] = 1
        /\ requests[p][1].xcsrf = outcomes[q][1].tok
        /\ requests[p][1].xcsrf # requests[q][1].xcsrf

\* The query keys upload_studio_asset_internal always sends, in order.
FixedKeys ==
    <<"assetTypeName", "name", "description", "AllID", "ispublic",
      "allowComments", "isGamesAsset">>

\* The entries of query list q whose key is k.
Entries(q, k) == { i \in 1..Len(q) : q[i][1] = k }

\* C13: the query list of every request is assetTypeName (the asset type's
\* name), name, description, AllID=1, ispublic=False, allowComments=True,
\* isGamesAsset=False, followed by nothing when group_id is None and by the
\* single entry groupId=<decimal group id> when group_id is Some.
C13_QueryParameters ==
    \A p \in Ops : \A i \in 1..Len(requests[p]) :
        LET q == requests[p][i].query
            a == info[p]
        IN /\ Len(q) >= 7
           /\ \A k \in 1..7 : q[k][1] = FixedKeys[k]
           /\ q[1][2] = (IF a.asset_type = "AssetType::Animation" THEN "Animation" ELSE "Audio")
           /\ q[2][2] = a.name
           /\ q[3][2] = a.description
           /\ q[4][2] = "1" /\ q[5][2] = "False" /\ q[6][2] = "True" /\ q[7][2] = "False"
           /\ a.group_id = None => (Len(q) = 7 /\ Entries(q, "groupId") = {})
           /\ a.group_id = Some(42) => (Len(q) = 8 /\ q[8] = <<"groupId", "42">>)
           /\ a.group_id \in {None, Some(42)}

C13_Witness ==
    /\ \E p \in Ops : /\ requests[p] # <<>>
                      /\ info[p].group_id = None
                      /\ Entries(requests[p][1].query, "groupId") = {}
    /\ \E p \in Ops : /\ requests[p] # <<>>
                      /\ info[p].group_id = Some(42)
                      /\ requests[p][1].query[8] = <<"groupId", "42">>

\* C14: no step changes the Client's cookie, and the requests of one call
\* carry the same Cookie header.
C14_CookieImmutable ==
    [][/\ cookie' = cookie
       /\ \A p \in Ops : \A i \in 1..Len(requests'[p]) :
             /\ cookie # None
             /\ requests'[p][i].cookie = requests'[p][1].cookie
             /\ requests'[p][i].cookie = CookieString(cookie[1])]_vars

C14_Witness ==
    \E p \in Ops :
        /\ Len(requests[p]) = 2
        /\ requests[p][1].cookie = requests[p][2].cookie
        /\ requests[p][1].cookie = ".ROBLOSECURITY=C"
        /\ cookie = Some("C")
        /\ \E q \in Ops \ {p} : OwnWrite(q) > 0

\* C15: the second request of a call equals the first in everything but the
\* X-CSRF header: same method, URL, query, Cookie and User-Agent headers, and
\* the whole of asset_data as body.
C15_RetrySendsSameRequest ==
    \A p \in Ops :
        Len(requests[p]) = 2 =>
            /\ [requests[p][2] EXCEPT !.xcsrf = ""] = [requests[p][1] EXCEPT !.xcsrf = ""]
            /\ requests[p][1].body = info[p].asset_data
            /\ requests[p][2].body = info[p].asset_data
            /\ info[p] = AssetOf(p)

C15_Witness ==
    \E p \in Ops :
        /\ Len(requests[p]) = 2
        /\ requests[p][2].xcsrf # requests[p][1].xcsrf
        /\ requests[p][2].body = requests[p][1].body
        /\ requests[p][2].body # <<>>
        /\ requests[p][2].query = requests[p][1].query

\* The set_xcsrf calls made by call p.
WritesBy(p) == { i \in 1..Len(writes) : writes[i][1] = p }

\* C16: a call runs set_xcsrf at most once: after its first attempt returned
\* InvalidXcsrf(T), with T, and before it hands its second request to the
\* Transport.  The token of an InvalidXcsrf returned by the second attempt is
\* in the returned error and is not written by the call.
C16_SingleWritePerCall ==
    \A p \in Ops :
        LET w == WritesBy(p)
        IN /\ Cardinality(w) <= 1
           /\ w # {} <=> attempt[p] = 2
           /\ \A i \in w :
                 /\ FirstIs(p, "InvalidXcsrf")
                 /\ writes[i][2] = outcomes[p][1].tok
                 /\ Len(requests[p]) = 2 => seen[p] >= i
           /\ Len(requests[p]) = 2 => w # {}
           /\ pc[p] = "set" => (w = {} /\ Len(requests[p]) = 1)
           /\ (Done(p) /\ SecondIs(p, "InvalidXcsrf"))
                 => /\ result[p] = InvalidXcsrf(outcomes[p][2].tok)
                    /\ Cardinality(w) = 1

C16_Witness ==
    \E p \in Ops :
        /\ Done(p)
        /\ SecondIs(p, "InvalidXcsrf")
        /\ outcomes[p][2].tok # outcomes[p][1].tok
        /\ token = outcomes[p][1].tok
        /\ result[p].tok # token
        /\ Len(writes) = 1

\* C17: the X-CSRF header of a second request is the token that was stored
\* when the call read it again: the one written by the last set_xcsrf before
\* that read, which is the call's own or a later one of another call; it is
\* the Client's starting token only if an InvalidXcsrf carried that value.
C17_RetrySendsRereadToken ==
    \A p \in Ops :
        Len(requests[p]) = 2 =>
            LET own == OwnWrite(p)
            IN /\ own > 0
               /\ seen[p] >= own
               /\ seen[p] <= Len(writes)
               /\ requests[p][2].xcsrf = writes[seen[p]][2]
               /\ requests[p][2].xcsrf = InitToken => InitToken \in Signalled

C17_Witness ==
    \E p \in Ops :
        /\ Len(requests[p]) = 2
        /\ seen[p] > OwnWrite(p)
        /\ requests[p][2].xcsrf # outcomes[p][1].tok
        /\ requests[p][2].xcsrf = outcomes[writes[seen[p]][1]][1].tok

\* The values place_id may take.
PlaceIds == {None, Some(64), Some(7)}

\* The query keys of the wire contract.
WireKeys == {FixedKeys[j] : j \in 1..7} \cup {"groupId"}

\* C18: place_id does not reach the wire: every request sent is the request
\* the same call would have built with any other place_id, its query has no
\* key besides the fixed ones and groupId, and no value that is the place id.
C18_PlaceIdIgnored ==
    \A p \in Ops : \A i \in 1..Len(requests[p]) :
        LET req == requests[p][i]
        IN /\ \A pl \in PlaceIds :
                 BuildRequest([info[p] EXCEPT !.place_id = pl], req.cookie, req.xcsrf) = req
           /\ \A k \in 1..Len(req.query) :
                 /\ req.query[k][1] \in WireKeys
                 /\ req.query[k][2] # "64"

C18_Witness ==
    \E p \in Ops :
        /\ requests[p] # <<>>
        /\ info[p].place_id = Some(64)
        /\ Len(requests[p][1].query) = 7

====
